---- MODULE Spec2Model ----
(***************************************************************************)
(* Model of lisa/platform_.py: the Platform base class (prepare, deploy    *)
(* and delete of an environment, and the environment information hook)     *)
(* and the load_platform factory function.                                 *)
(* The platform-specific routines (_prepare_environment,                   *)
(* _deploy_environment, _delete_environment,                               *)
(* _get_environment_information) are overridden by the platforms; their    *)
(* outcome is an input of each call.                                       *)
(***************************************************************************)
EXTENDS Integers, Sequences, FiniteSets, TLC

VARIABLES platforms, loaded, environment, history, calls, last, deployer

vars == <<platforms, loaded, environment, history, calls, last, deployer>>

----------------------------------------------------------------------------
(* Bounds *)

MaxPlatforms == 2
MaxRunbooks == 3
NumNodes == 4
MaxCalls == 3

----------------------------------------------------------------------------
(* Values *)

Initialized == "Initialized"
Prepared == "Prepared"
Deployed == "Deployed"
Deleted == "Deleted"

EnvironmentStatus == {Initialized, Prepared, Deployed, Deleted}

ENVIRONMENT_KEEP_ALWAYS == "always"

\* absent platform reference (Python None); platforms are numbered from 1
None == 0

\* type names the factory knows, and one it does not
RegisteredTypes == {"A", "B"}

admin_username(t) == IF t = "A" THEN "A_user" ELSE "B_user"
admin_password(t) == IF t = "A" THEN "A_password" ELSE "B_password"
admin_private_key_file(t) == IF t = "A" THEN "A_key" ELSE "B_key"

Runbook(t, k) ==
    [type |-> t, keep_environment |-> k,
     admin_username |-> admin_username(t),
     admin_password |-> admin_password(t),
     admin_private_key_file |-> admin_private_key_file(t)]

\* schema.Platform records offered to load_platform
Runbooks ==
    {Runbook("A", "no"), Runbook("A", "always"), Runbook("B", "failed"),
     Runbook("unknown", "no")}

RunbookLists == UNION {[1..n -> Runbooks] : n \in 0..MaxRunbooks}

\* a node of the environment: a RemoteNode carries connection information
Node(remote, u, p, k) ==
    [remote |-> remote, username |-> u, password |-> p,
     private_key_file |-> k, features |-> None]

NodeOf(i) ==
    CASE i % 4 = 1 -> Node(TRUE, "", "", "")
      [] i % 4 = 2 -> Node(TRUE, "node_user", "node_password", "node_key")
      [] i % 4 = 3 -> Node(FALSE, "", "", "")
      [] OTHER     -> Node(TRUE, "node_user", "", "")

Environment ==
    [status |-> Initialized, platform |-> None,
     nodes |-> [i \in 1..NumNodes |-> NodeOf(i)], is_closed |-> FALSE]

\* what a platform-specific routine observes when it is entered, and what
\* the handler has done so far
Event(name, env) ==
    [name |-> name, status |-> env.status, platform |-> env.platform]

----------------------------------------------------------------------------
(* Platform *)

type_name(self) == platforms[self].runbook.type

\* what _get_environment_information returns: nothing in the base class
\* (line 98), an entry of its own in a platform that overrides it
PlatformInformation(hook) ==
    IF hook = "default" THEN {} ELSE {<<"detail", "value">>}

\* a value the node's own runbook gives is kept, an absent one takes the
\* default
set_connection_info_by_runbook(node, username, password, key_file) ==
    [node EXCEPT
        !.username = IF @ # "" THEN @ ELSE username,
        !.password = IF @ # "" THEN @ ELSE password,
        !.private_key_file = IF @ # "" THEN @ ELSE key_file]

\* fill_connection_info with the isinstance test lost: every node takes
\* the runbook's defaults
fill_connection_info_every_node(self, env) ==
    LET platform_runbook == platforms[self].runbook
    IN  [env EXCEPT !.nodes =
            [i \in DOMAIN env.nodes |->
                set_connection_info_by_runbook(
                    env.nodes[i],
                    platform_runbook.admin_username,
                    platform_runbook.admin_password,
                    platform_runbook.admin_private_key_file)]]

\* lines 133-140: every RemoteNode takes the runbook's defaults
fill_connection_info(self, env) ==
    LET platform_runbook == platforms[self].runbook
    IN  [env EXCEPT !.nodes =
            [i \in DOMAIN env.nodes |->
                IF env.nodes[i].remote
                THEN set_connection_info_by_runbook(
                         env.nodes[i],
                         platform_runbook.admin_username,
                         platform_runbook.admin_password,
                         platform_runbook.admin_private_key_file)
                ELSE env.nodes[i]]]

\* prepare_environment with the test of is_success lost: the status is
\* set whatever _prepare_environment returned
prepare_environment_unchecked(self, env, hook) ==
    LET env1 == fill_connection_info(self, env)
        t1 == <<Event("set_connection_info", env1),
                Event("_prepare_environment", env1)>>
    IN  IF hook \in {"True", "False"}
        THEN LET env2 == [env1 EXCEPT !.status = Prepared]
             IN  [environment |-> env2, result |-> "ok",
                  returned |-> "environment", hook |-> hook,
                  trace |-> t1 \o <<Event("status", env2)>>]
        ELSE [environment |-> env1, result |-> hook,
              returned |-> "nothing", hook |-> hook, trace |-> t1]

\* prepare_environment with the status assignment lost
prepare_environment_no_status(self, env, hook) ==
    LET env1 == fill_connection_info(self, env)
        t1 == <<Event("set_connection_info", env1),
                Event("_prepare_environment", env1)>>
    IN  IF hook = "True"
        THEN [environment |-> env1, result |-> "ok",
              returned |-> "environment", hook |-> hook, trace |-> t1]
        ELSE IF hook = "False"
        THEN [environment |-> env1, result |-> "LisaException",
              returned |-> "nothing", hook |-> hook, trace |-> t1]
        ELSE [environment |-> env1, result |-> hook,
              returned |-> "nothing", hook |-> hook, trace |-> t1]

\* prepare_environment with every failure of _prepare_environment turned
\* into the capability error
prepare_environment_wraps(self, env, hook) ==
    LET env1 == fill_connection_info(self, env)
        t1 == <<Event("set_connection_info", env1),
                Event("_prepare_environment", env1)>>
    IN  IF hook = "True"
        THEN LET env2 == [env1 EXCEPT !.status = Prepared]
             IN  [environment |-> env2, result |-> "ok",
                  returned |-> "environment", hook |-> hook,
                  trace |-> t1 \o <<Event("status", env2)>>]
        ELSE [environment |-> env1, result |-> "LisaException",
              returned |-> "nothing", hook |-> hook, trace |-> t1]

\* prepare_environment binding the environment to the platform, as
\* deploy_environment does
prepare_environment_binds(self, env, hook) ==
    LET env1 == [fill_connection_info(self, env) EXCEPT !.platform = self]
        t1 == <<Event("set_connection_info", env1),
                Event("_prepare_environment", env1)>>
    IN  IF hook = "True"
        THEN LET env2 == [env1 EXCEPT !.status = Prepared]
             IN  [environment |-> env2, result |-> "ok",
                  returned |-> "environment", hook |-> hook,
                  trace |-> t1 \o <<Event("status", env2)>>]
        ELSE IF hook = "False"
        THEN [environment |-> env1, result |-> "LisaException",
              returned |-> "nothing", hook |-> hook, trace |-> t1]
        ELSE [environment |-> env1, result |-> hook,
              returned |-> "nothing", hook |-> hook, trace |-> t1]

\* hook is what _prepare_environment does: it returns True or False, or it
\* raises the exception named
prepare_environment(self, env, hook) ==
    LET env1 == fill_connection_info(self, env)
        t1 == <<Event("set_connection_info", env1),
                Event("_prepare_environment", env1)>>
    IN  IF hook = "True"
        THEN LET env2 == [env1 EXCEPT !.status = Prepared]
             IN  [environment |-> env2, result |-> "ok",
                  returned |-> "environment", hook |-> hook,
                  trace |-> t1 \o <<Event("status", env2)>>]
        ELSE IF hook = "False"
        THEN [environment |-> env1, result |-> "LisaException",
              returned |-> "nothing", hook |-> hook, trace |-> t1]
        ELSE [environment |-> env1, result |-> hook,
              returned |-> "nothing", hook |-> hook, trace |-> t1]

\* deploy_environment with the status set before _deploy_environment is
\* called instead of after it
deploy_environment_status_first(self, env, hook) ==
    LET env1 == [env EXCEPT !.platform = self]
        env2 == [env1 EXCEPT !.status = Deployed]
        t1 == <<Event("platform", env1), Event("status", env2),
                Event("_deploy_environment", env2)>>
    IN  IF hook = "return"
        THEN LET env3 == [env2 EXCEPT !.nodes =
                            [i \in DOMAIN env2.nodes |->
                               [env2.nodes[i] EXCEPT !.features = self]]]
             IN  [environment |-> env3, result |-> "ok",
                  returned |-> "nothing", hook |-> hook,
                  trace |-> t1 \o <<Event("features", env3)>>]
        ELSE [environment |-> env2, result |-> hook,
              returned |-> "nothing", hook |-> hook, trace |-> t1]

\* deploy_environment binding the platform after _deploy_environment has
\* returned instead of before it is called
deploy_environment_binds_late(self, env, hook) ==
    LET t1 == <<Event("_deploy_environment", env)>>
    IN  IF hook = "return"
        THEN LET env1 == [env EXCEPT !.platform = self]
                 env2 == [env1 EXCEPT !.status = Deployed]
                 env3 == [env2 EXCEPT !.nodes =
                            [i \in DOMAIN env2.nodes |->
                               [env2.nodes[i] EXCEPT !.features = self]]]
             IN  [environment |-> env3, result |-> "ok",
                  returned |-> "nothing", hook |-> hook,
                  trace |-> t1 \o <<Event("platform", env1),
                                    Event("status", env2),
                                    Event("features", env3)>>]
        ELSE [environment |-> env, result |-> hook,
              returned |-> "nothing", hook |-> hook, trace |-> t1]

\* deploy_environment building the features before _deploy_environment is
\* called instead of after the status is set
deploy_environment_features_first(self, env, hook) ==
    LET env1 == [env EXCEPT !.platform = self]
        env2 == [env1 EXCEPT !.nodes =
                   [i \in DOMAIN env1.nodes |->
                      [env1.nodes[i] EXCEPT !.features = self]]]
        t1 == <<Event("platform", env1), Event("features", env2),
                Event("_deploy_environment", env2)>>
    IN  IF hook = "return"
        THEN LET env3 == [env2 EXCEPT !.status = Deployed]
             IN  [environment |-> env3, result |-> "ok",
                  returned |-> "nothing", hook |-> hook,
                  trace |-> t1 \o <<Event("status", env3)>>]
        ELSE [environment |-> env2, result |-> hook,
              returned |-> "nothing", hook |-> hook, trace |-> t1]

\* deploy_environment with the assignment of environment.platform lost
deploy_environment_no_bind(self, env, hook) ==
    LET t1 == <<Event("_deploy_environment", env)>>
    IN  IF hook = "return"
        THEN LET env2 == [env EXCEPT !.status = Deployed]
                 env3 == [env2 EXCEPT !.nodes =
                            [i \in DOMAIN env2.nodes |->
                               [env2.nodes[i] EXCEPT !.features = self]]]
             IN  [environment |-> env3, result |-> "ok",
                  returned |-> "nothing", hook |-> hook,
                  trace |-> t1 \o <<Event("status", env2),
                                    Event("features", env3)>>]
        ELSE [environment |-> env, result |-> hook,
              returned |-> "nothing", hook |-> hook, trace |-> t1]

\* hook is what _deploy_environment does: it returns, or it raises
deploy_environment(self, env, hook) ==
    LET env1 == [env EXCEPT !.platform = self]
        t1 == <<Event("platform", env1), Event("_deploy_environment", env1)>>
    IN  IF hook = "return"
        THEN LET env2 == [env1 EXCEPT !.status = Deployed]
                 env3 == [env2 EXCEPT !.nodes =
                            [i \in DOMAIN env2.nodes |->
                               [env2.nodes[i] EXCEPT !.features = self]]]
             IN  [environment |-> env3, result |-> "ok",
                  returned |-> "nothing", hook |-> hook,
                  trace |-> t1 \o <<Event("status", env2),
                                    Event("features", env3)>>]
        ELSE [environment |-> env1, result |-> hook,
              returned |-> "nothing", hook |-> hook, trace |-> t1]

\* delete_environment with the test of keep_environment lost: the
\* platform-specific deletion runs on every call
delete_environment_always_teardown(self, env, hook) ==
    LET env1 == [env EXCEPT !.is_closed = TRUE]
        t2 == <<Event("close", env1), Event("_delete_environment", env1)>>
    IN  IF hook = "return"
        THEN LET env2 == [env1 EXCEPT !.status = Deleted]
             IN  [environment |-> env2, result |-> "ok",
                  returned |-> "nothing", hook |-> hook,
                  trace |-> t2 \o <<Event("status", env2)>>]
        ELSE [environment |-> env1, result |-> hook,
              returned |-> "nothing", hook |-> hook, trace |-> t2]

\* delete_environment closing the environment after the platform-specific
\* deletion instead of before it
delete_environment_closes_last(self, env, hook) ==
    IF platforms[self].runbook.keep_environment = ENVIRONMENT_KEEP_ALWAYS
    THEN LET env1 == [env EXCEPT !.is_closed = TRUE]
             env2 == [env1 EXCEPT !.status = Deleted]
         IN  [environment |-> env2, result |-> "ok",
              returned |-> "nothing", hook |-> "not_called",
              trace |-> <<Event("close", env1), Event("status", env2)>>]
    ELSE LET t1 == <<Event("_delete_environment", env)>>
         IN  IF hook = "return"
             THEN LET env1 == [env EXCEPT !.is_closed = TRUE]
                      env2 == [env1 EXCEPT !.status = Deleted]
                  IN  [environment |-> env2, result |-> "ok",
                       returned |-> "nothing", hook |-> hook,
                       trace |-> t1 \o <<Event("close", env1),
                                         Event("status", env2)>>]
             ELSE [environment |-> env, result |-> hook,
                   returned |-> "nothing", hook |-> hook, trace |-> t1]

\* hook is what _delete_environment does when it is called: it returns, or
\* it raises
delete_environment(self, env, hook) ==
    LET env1 == [env EXCEPT !.is_closed = TRUE]
        t1 == <<Event("close", env1)>>
    IN  IF platforms[self].runbook.keep_environment = ENVIRONMENT_KEEP_ALWAYS
        THEN LET env2 == [env1 EXCEPT !.status = Deleted]
             IN  [environment |-> env2, result |-> "ok",
                  returned |-> "nothing", hook |-> "not_called",
                  trace |-> t1 \o <<Event("status", env2)>>]
        ELSE LET t2 == t1 \o <<Event("_delete_environment", env1)>>
             IN  IF hook = "return"
                 THEN LET env2 == [env1 EXCEPT !.status = Deleted]
                      IN  [environment |-> env2, result |-> "ok",
                           returned |-> "nothing", hook |-> hook,
                           trace |-> t2 \o <<Event("status", env2)>>]
                 ELSE [environment |-> env1, result |-> hook,
                       returned |-> "nothing", hook |-> hook, trace |-> t2]

\* get_environment_information with the try/except around the
\* platform-specific routine lost
get_environment_information_no_try(self, env, hook) ==
    IF env.platform = None
    THEN [result |-> "AssertionError", information |-> {},
          hook |-> "not_called", trace |-> <<>>]
    ELSE IF type_name(env.platform) # type_name(self)
    THEN [result |-> "ok", information |-> {},
          hook |-> "not_called", trace |-> <<>>]
    ELSE LET information == {<<"platform", type_name(env.platform)>>}
             t1 == <<Event("_get_environment_information", env)>>
         IN  IF hook = "Exception"
             THEN [result |-> hook, information |-> {},
                   hook |-> hook, trace |-> t1]
             ELSE [result |-> "ok",
                   information |-> information \cup PlatformInformation(hook),
                   hook |-> hook, trace |-> t1]

\* get_environment_information with the comparison of the type names lost
get_environment_information_no_filter(self, env, hook) ==
    IF env.platform = None
    THEN [result |-> "AssertionError", information |-> {},
          hook |-> "not_called", trace |-> <<>>]
    ELSE LET information == {<<"platform", type_name(env.platform)>>}
             t1 == <<Event("_get_environment_information", env)>>
         IN  IF hook = "Exception"
             THEN [result |-> "ok", information |-> information,
                   hook |-> hook, trace |-> t1]
             ELSE [result |-> "ok",
                   information |-> information \cup PlatformInformation(hook),
                   hook |-> hook, trace |-> t1]

\* hook is what _get_environment_information does when it is called: the
\* base class's default, an overriding routine that returns an entry, or
\* one that raises
get_environment_information(self, env, hook) ==
    IF env.platform = None
    THEN [result |-> "AssertionError", information |-> {},
          hook |-> "not_called", trace |-> <<>>]
    ELSE IF type_name(env.platform) # type_name(self)
    THEN [result |-> "ok", information |-> {},
          hook |-> "not_called", trace |-> <<>>]
    ELSE LET information == {<<"platform", type_name(env.platform)>>}
             t1 == <<Event("_get_environment_information", env)>>
         IN  IF hook = "Exception"
             THEN [result |-> "ok", information |-> information,
                   hook |-> hook, trace |-> t1]
             ELSE [result |-> "ok",
                   information |-> information \cup PlatformInformation(hook),
                   hook |-> hook, trace |-> t1]

----------------------------------------------------------------------------
(* Factory *)

\* subclasses.Factory[Platform].create_by_runbook: the instance of the
\* registered type, holding the runbook; an unknown type name is an error
create_by_runbook(runbook) ==
    IF runbook.type \in RegisteredTypes
    THEN [result |-> "ok", created |-> <<[runbook |-> runbook]>>]
    ELSE [result |-> "LisaException", created |-> <<>>]

\* load_platform with the cardinality test weakened to "at least one"
load_platform_at_least_one(platforms_runbook) ==
    LET platform_count == Len(platforms_runbook)
    IN  IF platform_count < 1
        THEN [result |-> "LisaException", created |-> <<>>]
        ELSE create_by_runbook(platforms_runbook[1])

load_platform(platforms_runbook) ==
    LET platform_count == Len(platforms_runbook)
    IN  IF platform_count # 1
        THEN [result |-> "LisaException", created |-> <<>>]
        ELSE create_by_runbook(platforms_runbook[1])

----------------------------------------------------------------------------
(* Calls *)

NoCall ==
    [op |-> "none", self |-> None, pre |-> Environment, result |-> "ok",
     returned |-> "nothing", hook |-> "not_called", trace |-> <<>>,
     information |-> {}]

NoLoad == [called |-> FALSE, arg |-> <<>>, result |-> "ok",
           returned |-> None, before |-> 0]

Observe(h, s) == IF h[Len(h)] = s THEN h ELSE Append(h, s)

Call(op, self, r) ==
    /\ calls < MaxCalls
    /\ calls' = calls + 1
    /\ environment' = r.environment
    /\ history' = Observe(history, r.environment.status)
    /\ last' = [op |-> op, self |-> self, pre |-> environment,
                result |-> r.result, returned |-> r.returned,
                hook |-> r.hook, trace |-> r.trace, information |-> {}]
    /\ deployer' = IF op = "deploy_environment" /\ r.result = "ok"
                   THEN self ELSE deployer
    /\ UNCHANGED <<platforms, loaded>>

PrepareEnvironment ==
    \E self \in DOMAIN platforms :
      \E hook \in {"True", "False", "WaitMoreResourceError", "Exception"} :
        Call("prepare_environment", self,
             prepare_environment(self, environment, hook))

DeployEnvironment ==
    \E self \in DOMAIN platforms :
      \E hook \in {"return", "Exception"} :
        Call("deploy_environment", self,
             deploy_environment(self, environment, hook))

DeleteEnvironment ==
    \E self \in DOMAIN platforms :
      \E hook \in {"return", "Exception"} :
        Call("delete_environment", self,
             delete_environment(self, environment, hook))

\* the hook is a query: it leaves the environment alone
GetEnvironmentInformation ==
    \E self \in DOMAIN platforms :
      \E hook \in {"default", "return", "Exception"} :
        LET r == get_environment_information(self, environment, hook)
        IN  /\ last' = [op |-> "get_environment_information", self |-> self,
                        pre |-> environment, result |-> r.result,
                        returned |-> IF r.result = "ok" THEN "information"
                                     ELSE "nothing",
                        hook |-> r.hook, trace |-> r.trace,
                        information |-> r.information]
            /\ UNCHANGED <<platforms, loaded, environment, history, calls,
                           deployer>>

LoadPlatform ==
    \E platforms_runbook \in RunbookLists :
      LET r == load_platform(platforms_runbook)
      IN  /\ Len(platforms) < MaxPlatforms
          /\ platforms' = platforms \o r.created
          /\ loaded' = [called |-> TRUE, arg |-> platforms_runbook,
                        result |-> r.result,
                        returned |-> IF r.result = "ok"
                                     THEN Len(platforms) + Len(r.created)
                                     ELSE None,
                        before |-> Len(platforms)]
          /\ UNCHANGED <<environment, history, calls, last, deployer>>

----------------------------------------------------------------------------
(* Specifications *)

\* the lifecycle of one environment, driven by the platforms that
\* load_platform has constructed
LoadedPlatforms ==
    {load_platform(<<rb>>).created[1] :
        rb \in {x \in Runbooks : load_platform(<<x>>).result = "ok"}}

Init ==
    /\ platforms \in UNION {[1..n -> LoadedPlatforms] : n \in 1..MaxPlatforms}
    /\ loaded = NoLoad
    /\ environment = Environment
    /\ history = <<Initialized>>
    /\ calls = 0
    /\ last = NoCall
    /\ deployer = None

Next ==
    \/ PrepareEnvironment
    \/ DeployEnvironment
    \/ DeleteEnvironment
    \/ GetEnvironmentInformation

Spec == Init /\ [][Next]_vars

\* the factory alone: no platform exists before load_platform is called
InitLoad ==
    /\ platforms = <<>>
    /\ loaded = NoLoad
    /\ environment = Environment
    /\ history = <<Initialized>>
    /\ calls = 0
    /\ last = NoCall
    /\ deployer = None

NextLoad == LoadPlatform

SpecLoad == InitLoad /\ [][NextLoad]_vars

TypeOK ==
    /\ environment.status \in EnvironmentStatus
    /\ environment.platform \in {None} \cup DOMAIN platforms
    /\ calls \in 0..MaxCalls
    /\ Len(platforms) <= MaxPlatforms

----------------------------------------------------------------------------
(* Properties of the lifecycle calls *)

LifecycleOrder == <<Initialized, Prepared, Deployed, Deleted>>

IsPrefix(s, t) ==
    /\ Len(s) <= Len(t)
    /\ \A i \in 1..Len(s) : s[i] = t[i]

\* how often the last call entered the platform-specific routine `name`
Invocations(name) ==
    Cardinality({i \in DOMAIN last.trace : last.trace[i].name = name})

keep_environment(self) == platforms[self].runbook.keep_environment

\* C1: the sequence of distinct values taken by environment.status is a
\* prefix of Initialized, Prepared, Deployed, Deleted.
C1_StatusSequenceIsPrefix == IsPrefix(history, LifecycleOrder)

\* C2: a deploy_environment call on an environment that is not Prepared and
\* a prepare_environment call on an environment that is not Initialized
\* fail and leave environment.status unchanged.
C2_OutOfOrderRejected ==
    /\ (last.op = "deploy_environment" /\ last.pre.status # Prepared)
          => (last.result # "ok" /\ environment.status = last.pre.status)
    /\ (last.op = "prepare_environment" /\ last.pre.status # Initialized)
          => (last.result # "ok" /\ environment.status = last.pre.status)

\* C3: once environment.status is Deleted, no later call changes it.
C3_DeletedIsTerminal ==
    [][environment.status = Deleted => environment'.status = Deleted]_vars

\* C4: when _prepare_environment returns False, prepare_environment raises
\* LisaException and the status is what it was before the call, so an
\* Initialized environment remains Initialized.
C4_InfeasibleKeepsStatus ==
    (last.op = "prepare_environment" /\ last.hook = "False")
        => /\ last.result = "LisaException"
           /\ environment.status = last.pre.status

C4_Witness ==
    /\ last.op = "prepare_environment"
    /\ last.hook = "False"
    /\ last.pre.status = Initialized
    /\ last.result = "LisaException"
    /\ environment.status = Initialized

\* C5: when _prepare_environment returns True, prepare_environment sets
\* the status to Prepared and returns the environment without raising.
C5_FeasiblePrepares ==
    (last.op = "prepare_environment" /\ last.hook = "True")
        => /\ last.result = "ok"
           /\ last.returned = "environment"
           /\ environment.status = Prepared

C5_Witness ==
    /\ last.op = "prepare_environment"
    /\ last.hook = "True"
    /\ last.pre.status = Initialized
    /\ last.returned = "environment"
    /\ environment.status = Prepared

\* C6: when _deploy_environment raises, deploy_environment propagates the
\* exception and the status is not advanced: a Prepared environment is
\* left Prepared.
C6_DeployFailureKeepsStatus ==
    (last.op = "deploy_environment" /\ last.hook = "Exception")
        => /\ last.result = "Exception"
           /\ environment.status = last.pre.status
           /\ \A i \in DOMAIN last.trace : last.trace[i].status # Deployed
                                           \/ last.pre.status = Deployed

C6_Witness ==
    /\ last.op = "deploy_environment"
    /\ last.hook = "Exception"
    /\ last.pre.status = Prepared
    /\ last.result = "Exception"
    /\ environment.status = Prepared

\* C7: when _delete_environment raises, delete_environment does not raise
\* and still sets the status to Deleted.
C7_DeleteFailureAbsorbed ==
    (last.op = "delete_environment" /\ last.hook = "Exception")
        => /\ last.result = "ok"
           /\ environment.status = Deleted

\* C8: with keep_environment = always, delete_environment sets the status
\* to Deleted and never enters _delete_environment; with any other value
\* it enters _delete_environment exactly once.
C8_RetentionSkipsTeardown ==
    last.op = "delete_environment"
        => IF keep_environment(last.self) = ENVIRONMENT_KEEP_ALWAYS
           THEN /\ Invocations("_delete_environment") = 0
                /\ last.result = "ok"
                /\ environment.status = Deleted
           ELSE Invocations("_delete_environment") = 1

C8_Witness ==
    /\ last.op = "delete_environment"
    /\ keep_environment(last.self) = ENVIRONMENT_KEEP_ALWAYS
    /\ last.pre.status = Deployed
    /\ Invocations("_delete_environment") = 0
    /\ environment.status = Deleted

\* C9: a delete_environment call on an environment that is already Deleted
\* does not raise and does not enter _delete_environment.
C9_SecondDeleteIsNoOp ==
    (last.op = "delete_environment" /\ last.pre.status = Deleted)
        => /\ last.result = "ok"
           /\ Invocations("_delete_environment") = 0

----------------------------------------------------------------------------
(* Properties of the factory *)

\* C10: load_platform raises LisaException for every list whose length is
\* not 1 and constructs no Platform; for a list of one record of a
\* registered type it constructs exactly one Platform, holding that
\* record, and returns it.
C10_LoadPlatformCardinality ==
    loaded.called
        => IF Len(loaded.arg) # 1
           THEN /\ loaded.result = "LisaException"
                /\ loaded.returned = None
                /\ Len(platforms) = loaded.before
           ELSE loaded.arg[1].type \in RegisteredTypes
                   => /\ loaded.result = "ok"
                      /\ Len(platforms) = loaded.before + 1
                      /\ loaded.returned = Len(platforms)
                      /\ platforms[loaded.returned].runbook = loaded.arg[1]

C10_Witness ==
    /\ loaded.called
    /\ Len(loaded.arg) = 2
    /\ loaded.result = "LisaException"
    /\ loaded.before = 1
    /\ Len(platforms) = 1

----------------------------------------------------------------------------
(* Properties of the environment information hook *)

\* C11: a platform whose type name differs from the type name of the
\* environment's owning platform returns an empty mapping and never enters
\* _get_environment_information.
C11_OtherPlatformContributesNothing ==
    (/\ last.op = "get_environment_information"
     /\ last.pre.platform # None
     /\ type_name(last.pre.platform) # type_name(last.self))
        => /\ last.result = "ok"
           /\ last.information = {}
           /\ Invocations("_get_environment_information") = 0

C11_Witness ==
    /\ last.op = "get_environment_information"
    /\ last.pre.platform # None
    /\ last.pre.status = Deployed
    /\ type_name(last.pre.platform) # type_name(last.self)
    /\ last.information = {}

----------------------------------------------------------------------------
(* Further properties of prepare_environment *)

\* C13: when _prepare_environment raises WaitMoreResourceError,
\* prepare_environment raises that same error, not the LisaException of an
\* infeasible environment; it has entered _prepare_environment exactly
\* once and the status is what it was.
C13_ShortageSurfaced ==
    (last.op = "prepare_environment" /\ last.hook = "WaitMoreResourceError")
        => /\ last.result = "WaitMoreResourceError"
           /\ last.result # "LisaException"
           /\ Invocations("_prepare_environment") = 1
           /\ environment.status = last.pre.status

C13_Witness ==
    /\ last.op = "prepare_environment"
    /\ last.hook = "WaitMoreResourceError"
    /\ last.result = "WaitMoreResourceError"
    /\ last.pre.status = Initialized
    /\ environment.status = Initialized

\* the value of a connection field after the defaults were offered
Filled(explicit, default) == IF explicit # "" THEN explicit ELSE default

\* C14: after prepare_environment, each connection field of a remote node
\* is the node's own value where it had one and the platform runbook's
\* default where it had none; a node that is not remote is as it was.
C14_DefaultsFillAbsent ==
    last.op = "prepare_environment"
        => \A i \in DOMAIN environment.nodes :
              LET before == last.pre.nodes[i]
                  after == environment.nodes[i]
                  runbook == platforms[last.self].runbook
              IN  IF before.remote
                  THEN /\ after.username =
                             Filled(before.username, runbook.admin_username)
                       /\ after.password =
                             Filled(before.password, runbook.admin_password)
                       /\ after.private_key_file =
                             Filled(before.private_key_file,
                                    runbook.admin_private_key_file)
                       /\ after.remote
                       /\ after.features = before.features
                  ELSE after = before

C14_Witness ==
    /\ last.op = "prepare_environment"
    /\ \E i \in DOMAIN environment.nodes :
          /\ last.pre.nodes[i].remote
          /\ last.pre.nodes[i].username = ""
          /\ environment.nodes[i].username =
                platforms[last.self].runbook.admin_username
          /\ environment.nodes[i].private_key_file =
                platforms[last.self].runbook.admin_private_key_file
    /\ \E i \in DOMAIN environment.nodes :
          /\ last.pre.nodes[i].remote
          /\ last.pre.nodes[i].password = "node_password"
          /\ environment.nodes[i] = last.pre.nodes[i]
    /\ \E i \in DOMAIN environment.nodes :
          /\ ~last.pre.nodes[i].remote
          /\ environment.nodes[i] = last.pre.nodes[i]

\* C15: environment.platform changes only in a deploy_environment call:
\* prepare_environment and delete_environment, succeeding or failing,
\* leave it as it was.
C15_PlatformBoundOnlyByDeploy ==
    [][environment'.platform # environment.platform
          => last'.op = "deploy_environment"]_vars

C15_Witness ==
    /\ last.op = "prepare_environment"
    /\ last.result = "ok"
    /\ environment.status = Prepared
    /\ environment.platform = None

----------------------------------------------------------------------------
(* Order of the steps inside deploy_environment and delete_environment *)

\* the step `first` of the last call comes before each step `second`
Precedes(first, second) ==
    \A i \in DOMAIN last.trace :
        last.trace[i].name = second
            => \E j \in 1..(i - 1) : last.trace[j].name = first

\* C16: deploy_environment binds environment.platform to the deploying
\* platform before it enters _deploy_environment, which therefore sees
\* the deploying platform as the owner.
C16_BoundBeforeDeployRoutine ==
    last.op = "deploy_environment"
        => /\ Invocations("_deploy_environment") = 1
           /\ Precedes("platform", "_deploy_environment")
           /\ \A i \in DOMAIN last.trace :
                 last.trace[i].name = "_deploy_environment"
                     => last.trace[i].platform = last.self

C16_Witness ==
    /\ last.op = "deploy_environment"
    /\ last.pre.platform # last.self
    /\ last.trace[2].name = "_deploy_environment"
    /\ last.trace[2].platform = last.self

\* C17: delete_environment closes the environment before it enters
\* _delete_environment, and the environment is closed after the call
\* whether the deletion was skipped, returned or raised.
C17_ClosedBeforeTeardown ==
    last.op = "delete_environment"
        => /\ environment.is_closed
           /\ Invocations("close") = 1
           /\ Precedes("close", "_delete_environment")
           /\ Precedes("close", "status")

C17_Witness ==
    /\ last.op = "delete_environment"
    /\ last.hook = "Exception"
    /\ ~last.pre.is_closed
    /\ environment.is_closed
    /\ environment.status # Deleted

\* C18: deploy_environment builds the features after it has set the
\* status to Deployed; after a successful call every node has features
\* bound to the deploying platform; when _deploy_environment raises, the
\* features of every node are what they were.
C18_FeaturesAfterDeployed ==
    last.op = "deploy_environment"
        => /\ Precedes("status", "features")
           /\ \A i \in DOMAIN last.trace :
                 last.trace[i].name = "features"
                     => last.trace[i].status = Deployed
           /\ last.result = "ok"
                 => \A n \in DOMAIN environment.nodes :
                       environment.nodes[n].features = last.self
           /\ last.hook = "Exception"
                 => /\ Invocations("features") = 0
                    /\ \A n \in DOMAIN environment.nodes :
                          environment.nodes[n].features =
                              last.pre.nodes[n].features

C18_Witness ==
    /\ last.op = "deploy_environment"
    /\ last.result = "ok"
    /\ last.pre.status = Prepared
    /\ \A n \in DOMAIN environment.nodes :
          /\ last.pre.nodes[n].features = None
          /\ environment.nodes[n].features = last.self

====
